---------------------------- MODULE Spec2Model ----------------------------
(***************************************************************************)
(* A model of the CUCM CDR failed-call reporter (cucm_cdr_reporter.py):    *)
(* the record decoder (CDRParser), the failure classifier (CDRRecord), the *)
(* SQLite store (CDRDatabase) and the run workflow (CDRReporter), with two *)
(* runs that may overlap on one store.                                     *)
(*                                                                         *)
(* Three specifications share the module:                                  *)
(*   ClassifySpec  the classifier applied to records drawn from bounded    *)
(*                 sets of durations and cause codes;                      *)
(*   DecodeSpec    parse_file applied to files drawn from the catalogue of *)
(*                 lines;                                                  *)
(*   Spec          the runs, the store and the clock.                      *)
(***************************************************************************)
EXTENDS Integers, Sequences, FiniteSets, Bags, TLC

VARIABLES
    now,              \* the wall clock, datetime.now()
    failed_calls,     \* table failed_calls: a bag of rows (the id column left out)
    processed_files,  \* table processed_files: a bag of rows
    pc,               \* pc[r]: where run r stands in CDRReporter.run
    batch,            \* batch[r]: downloaded_files, a sequence of [name, content]
    idx,              \* idx[r]: position of the for loop over downloaded_files
    file_hash,        \* file_hash[r]: local of fetch_and_process_cdr_files
    records,          \* records[r]: what parse_file returned for the current file
    pos,              \* pos[r]: position of the for loop over records
    failed_count,     \* failed_count[r]: local of fetch_and_process_cdr_files
    total_records,    \* total_records[r]
    total_failed,     \* total_failed[r]
    offered,          \* history: records run r passed to insert_failed_call for the current file
    unread,           \* history: batch positions whose file run r could not read
    ev,               \* history: ev[r] names the outcome of run r's latest step
    crec,             \* ClassifySpec: the record given to the classifier
    verdict,          \* ClassifySpec: what the classifier answered
    dfile,            \* DecodeSpec: the file given to parse_file
    dresult,          \* DecodeSpec: what parse_file returned
    purged,           \* StoreSpec: what cleanup_old_records did and returned
    stats,            \* StoreSpec: what get_failure_statistics returned
    calls,            \* StoreSpec: what get_failed_calls returned
    local_cdr_dir,    \* SkipFetchSpec: the files in Config.local_cdr_dir
    delivery          \* OverlapSpec: the batch both runs download

vars == <<now, failed_calls, processed_files, pc, batch, idx, file_hash, records,
          pos, failed_count, total_records, total_failed, offered, unread, ev,
          crec, verdict, dfile, dresult, purged, stats, calls, local_cdr_dir, delivery>>

runVars == <<now, failed_calls, processed_files, pc, batch, idx, file_hash, records,
             pos, failed_count, total_records, total_failed, offered, unread, ev>>

classifyVars == <<crec, verdict>>

decodeVars == <<dfile, dresult>>

storeVars == <<purged, stats, calls>>

(* What the runs never touch. *)
auxVars == <<crec, verdict, dfile, dresult, purged, stats, calls, local_cdr_dir, delivery>>

-----------------------------------------------------------------------------
(* Q.931 cause codes *)

CAUSE_CODES ==
       (0 :> "No error")
    @@ (1 :> "Unallocated/unassigned number")
    @@ (2 :> "No route to specified transit network")
    @@ (3 :> "No route to destination")
    @@ (4 :> "Send special information tone")
    @@ (5 :> "Misdialed trunk prefix")
    @@ (6 :> "Channel unacceptable")
    @@ (7 :> "Call awarded and being delivered")
    @@ (16 :> "Normal call clearing")
    @@ (17 :> "User busy")
    @@ (18 :> "No user responding")
    @@ (19 :> "No answer from user (user alerted)")
    @@ (20 :> "Subscriber absent")
    @@ (21 :> "Call rejected")
    @@ (22 :> "Number changed")
    @@ (23 :> "Redirection to new destination")
    @@ (25 :> "Exchange routing error")
    @@ (26 :> "Non-selected user clearing")
    @@ (27 :> "Destination out of order")
    @@ (28 :> "Invalid number format")
    @@ (29 :> "Facility rejected")
    @@ (30 :> "Response to STATUS ENQUIRY")
    @@ (31 :> "Normal, unspecified")
    @@ (34 :> "No circuit/channel available")
    @@ (38 :> "Network out of order")
    @@ (39 :> "Permanent frame mode connection out of service")
    @@ (40 :> "Permanent frame mode connection operational")
    @@ (41 :> "Temporary failure")
    @@ (42 :> "Switching equipment congestion")
    @@ (43 :> "Access information discarded")
    @@ (44 :> "Requested circuit/channel not available")
    @@ (46 :> "Precedence call blocked")
    @@ (47 :> "Resource unavailable, unspecified")
    @@ (49 :> "Quality of service not available")
    @@ (50 :> "Requested facility not subscribed")
    @@ (52 :> "Outgoing calls barred")
    @@ (54 :> "Incoming calls barred")
    @@ (57 :> "Bearer capability not authorized")
    @@ (58 :> "Bearer capability not presently available")
    @@ (62 :> "Inconsistency in designated outgoing access")
    @@ (63 :> "Service or option not available")
    @@ (65 :> "Bearer capability not implemented")
    @@ (66 :> "Channel type not implemented")
    @@ (69 :> "Requested facility not implemented")
    @@ (70 :> "Only restricted digital bearer capability available")
    @@ (79 :> "Service or option not implemented")
    @@ (81 :> "Invalid call reference value")
    @@ (82 :> "Identified channel does not exist")
    @@ (83 :> "Suspended call exists but call identity does not")
    @@ (84 :> "Call identity in use")
    @@ (85 :> "No call suspended")
    @@ (86 :> "Call having requested identity has been cleared")
    @@ (87 :> "User not member of CUG")
    @@ (88 :> "Incompatible destination")
    @@ (90 :> "Non-existent CUG")
    @@ (91 :> "Invalid transit network selection")
    @@ (95 :> "Invalid message, unspecified")
    @@ (96 :> "Mandatory IE missing")
    @@ (97 :> "Message type non-existent")
    @@ (98 :> "Message not compatible with call state")
    @@ (99 :> "IE non-existent or not implemented")
    @@ (100 :> "Invalid IE contents")
    @@ (101 :> "Message not compatible with call state")
    @@ (102 :> "Recovery on timer expiry")
    @@ (103 :> "Parameter non-existent or not implemented")
    @@ (110 :> "Message with unrecognized parameter discarded")
    @@ (111 :> "Protocol error, unspecified")
    @@ (127 :> "Interworking, unspecified")
    @@ (393216 :> "Normal clearing (Cisco)")
    @@ (458752 :> "Call rejected (Cisco)")

SUCCESS_CODES == {0, 16, 393216}

(* Optional[datetime]: None is the empty sequence, a datetime t is <<t>>. *)
None == <<>>

-----------------------------------------------------------------------------
(* CDRRecord: the fields the store and the classifier read *)

CDRRecord(gcid, dto, calling, called, final, ocv, dcv, dur, odev, ddev) ==
    [global_call_id               |-> gcid,
     date_time_origination        |-> dto,
     calling_party_number         |-> calling,
     original_called_party_number |-> called,
     final_called_party_number    |-> final,
     orig_cause_value             |-> ocv,
     dest_cause_value             |-> dcv,
     duration                     |-> dur,
     orig_device_name             |-> odev,
     dest_device_name             |-> ddev]

is_failed_terminating_only(record) ==
    record.duration = 0 /\ record.dest_cause_value \notin SUCCESS_CODES

is_failed(record) ==
    IF record.duration = 0
    THEN IF record.dest_cause_value \notin SUCCESS_CODES
         THEN TRUE
         ELSE IF record.orig_cause_value \notin SUCCESS_CODES
              THEN TRUE
              ELSE FALSE
    ELSE FALSE

CauseText(cause) ==
    IF cause \in DOMAIN CAUSE_CODES
    THEN CAUSE_CODES[cause]
    ELSE "Unknown cause code: " \o ToString(cause)

primary_cause_code(record) ==
    IF record.dest_cause_value # 0
    THEN record.dest_cause_value
    ELSE record.orig_cause_value

failure_reason_originating_first(record) ==
    CauseText(IF record.orig_cause_value # 0
              THEN record.orig_cause_value
              ELSE record.dest_cause_value)

failure_reason(record) ==
    LET cause == IF record.dest_cause_value # 0
                 THEN record.dest_cause_value
                 ELSE record.orig_cause_value
    IN  CauseText(cause)

-----------------------------------------------------------------------------
(* CDRParser *)

CDR_FIELDS ==
       (0 :> "cdrRecordType")
    @@ (1 :> "globalCallID_callManagerId")
    @@ (2 :> "globalCallID_callId")
    @@ (3 :> "origLegCallIdentifier")
    @@ (4 :> "dateTimeOrigination")
    @@ (5 :> "origNodeId")
    @@ (6 :> "origSpan")
    @@ (7 :> "origIpAddr")
    @@ (8 :> "callingPartyNumber")
    @@ (9 :> "callingPartyUnicodeLoginUserID")
    @@ (10 :> "origCause_location")
    @@ (11 :> "origCause_value")
    @@ (12 :> "origPrecedenceLevel")
    @@ (13 :> "origMediaTransportAddress_IP")
    @@ (14 :> "origMediaTransportAddress_Port")
    @@ (15 :> "origMediaCap_payloadCapability")
    @@ (16 :> "origMediaCap_maxFramesPerPacket")
    @@ (17 :> "origMediaCap_g723BitRate")
    @@ (18 :> "origVideoCap_Codec")
    @@ (19 :> "origVideoCap_Bandwidth")
    @@ (20 :> "origVideoCap_Resolution")
    @@ (21 :> "origVideoTransportAddress_IP")
    @@ (22 :> "origVideoTransportAddress_Port")
    @@ (23 :> "origRSVPAudioStat")
    @@ (24 :> "origRSVPVideoStat")
    @@ (25 :> "destLegCallIdentifier")
    @@ (26 :> "destNodeId")
    @@ (27 :> "destSpan")
    @@ (28 :> "destIpAddr")
    @@ (29 :> "originalCalledPartyNumber")
    @@ (30 :> "finalCalledPartyNumber")
    @@ (31 :> "finalCalledPartyUnicodeLoginUserID")
    @@ (32 :> "destCause_location")
    @@ (33 :> "destCause_value")
    @@ (34 :> "destPrecedenceLevel")
    @@ (35 :> "destMediaTransportAddress_IP")
    @@ (36 :> "destMediaTransportAddress_Port")
    @@ (37 :> "destMediaCap_payloadCapability")
    @@ (38 :> "destMediaCap_maxFramesPerPacket")
    @@ (39 :> "destMediaCap_g723BitRate")
    @@ (40 :> "destVideoCap_Codec")
    @@ (41 :> "destVideoCap_Bandwidth")
    @@ (42 :> "destVideoCap_Resolution")
    @@ (43 :> "destVideoTransportAddress_IP")
    @@ (44 :> "destVideoTransportAddress_Port")
    @@ (45 :> "destRSVPAudioStat")
    @@ (46 :> "destRSVPVideoStat")
    @@ (47 :> "dateTimeConnect")
    @@ (48 :> "dateTimeDisconnect")
    @@ (49 :> "lastRedirectDn")
    @@ (50 :> "pkid")
    @@ (51 :> "originalCalledPartyNumberPartition")
    @@ (52 :> "callingPartyNumberPartition")
    @@ (53 :> "finalCalledPartyNumberPartition")
    @@ (54 :> "lastRedirectDnPartition")
    @@ (55 :> "duration")
    @@ (56 :> "origDeviceName")
    @@ (57 :> "destDeviceName")
    @@ (101 :> "huntPilotDN")
    @@ (102 :> "huntPilotPartition")

(* int(): the decimal literals the catalogue of lines uses. A string outside  *)
(* the table makes int() raise ValueError.                                    *)
IntLiterals ==
       ("0" :> 0) @@ ("1" :> 1) @@ ("2" :> 2) @@ ("3" :> 3) @@ ("4" :> 4)
    @@ ("5" :> 5) @@ ("7" :> 7) @@ ("16" :> 16) @@ ("17" :> 17) @@ ("19" :> 19)
    @@ ("21" :> 21) @@ ("200" :> 200) @@ ("393216" :> 393216)
    @@ ("-1" :> (0 - 1)) @@ ("1000000" :> 1000000)

(* fromtimestamp() raises OverflowError beyond the platform's range. *)
MaxTimestamp == 99

MinFields == 50

safe_int(value, default) ==
    IF value # ""
    THEN IF value \in DOMAIN IntLiterals THEN IntLiterals[value] ELSE default
    ELSE default

(* _parse_timestamp lets OverflowError through: it catches ValueError and     *)
(* TypeError only.                                                            *)
parse_timestamp_raises(epoch_str) ==
    /\ epoch_str # ""
    /\ epoch_str \in DOMAIN IntLiterals
    /\ IntLiterals[epoch_str] > 0
    /\ IntLiterals[epoch_str] > MaxTimestamp

parse_timestamp(epoch_str) ==
    IF epoch_str # "" /\ epoch_str \notin DOMAIN IntLiterals
    THEN None
    ELSE LET epoch == IF epoch_str # "" THEN IntLiterals[epoch_str] ELSE 0
         IN  IF epoch > 0 THEN <<epoch>> ELSE None

(* row is a sequence of field strings; ordinal idx is row[idx + 1]. *)
get_field(row, field_name) ==
    IF \E i \in DOMAIN CDR_FIELDS : CDR_FIELDS[i] = field_name /\ i < Len(row)
    THEN row[(CHOOSE i \in DOMAIN CDR_FIELDS :
                  CDR_FIELDS[i] = field_name /\ i < Len(row)) + 1]
    ELSE ""

get_field_int(row, field_name) == safe_int(get_field(row, field_name), 0)

(* The CDRRecord(...) call of parse_file, lines 681-703. *)
RowRecord(row) ==
    CDRRecord(
        get_field(row, "globalCallID_callManagerId") \o "-"
            \o get_field(row, "globalCallID_callId"),
        parse_timestamp(get_field(row, "dateTimeOrigination")),
        get_field(row, "callingPartyNumber"),
        get_field(row, "originalCalledPartyNumber"),
        get_field(row, "finalCalledPartyNumber"),
        get_field_int(row, "origCause_value"),
        get_field_int(row, "destCause_value"),
        get_field_int(row, "duration"),
        get_field(row, "origDeviceName"),
        get_field(row, "destDeviceName"))

(* An exception inside the row's try block, caught at line 708. *)
RowRaises(row) ==
    \/ parse_timestamp_raises(get_field(row, "dateTimeOrigination"))
    \/ parse_timestamp_raises(get_field(row, "dateTimeConnect"))
    \/ parse_timestamp_raises(get_field(row, "dateTimeDisconnect"))

(* A field longer than csv.field_size_limit() stands as this string; the     *)
(* reader raises csv.Error when it meets one.                                 *)
LongField == "<field over csv.field_size_limit>"

ReaderRaises(row) == \E i \in DOMAIN row : row[i] = LongField

RowTooShortNoMinimum(row) == Len(row) = 0

(* if not row or len(row) < 50 *)
RowTooShort(row) == Len(row) = 0 \/ Len(row) < MinFields

(* The for loop of parse_file from line i on; the reader's csv.Error is       *)
(* caught by the outer try, which ends the loop and returns what it has.      *)
RECURSIVE ParseFrom(_, _, _, _)
ParseFrom(rows, i, recs, total_rows) ==
    IF i > Len(rows)
    THEN [records |-> recs, total_rows |-> total_rows]
    ELSE IF ReaderRaises(rows[i])
    THEN [records |-> recs, total_rows |-> total_rows]
    ELSE LET row == rows[i] IN
         IF RowTooShort(row)
         THEN ParseFrom(rows, i + 1, recs, total_rows + 1)
         ELSE IF safe_int(row[1], 0) # 1
         THEN ParseFrom(rows, i + 1, recs, total_rows + 1)
         ELSE IF RowRaises(row)
         THEN ParseFrom(rows, i + 1, recs, total_rows + 1)
         ELSE IF RowRecord(row).date_time_origination # None
         THEN ParseFrom(rows, i + 1, Append(recs, RowRecord(row)), total_rows + 1)
         ELSE ParseFrom(rows, i + 1, recs, total_rows + 1)

parse_file(rows) == ParseFrom(rows, 1, <<>>, 0)

-----------------------------------------------------------------------------
(* The lines and files given to the decoder and to the runs *)

MkRow(n, ov) == [i \in 1..n |-> IF (i - 1) \in DOMAIN ov THEN ov[i - 1] ELSE ""]

CallRow(n, rtype, callId, epoch, calling, ocv, dcv, dur, dev) ==
    MkRow(n, (0 :> rtype) @@ (1 :> "1") @@ (2 :> callId) @@ (4 :> epoch)
             @@ (8 :> calling) @@ (11 :> ocv) @@ (29 :> "9000") @@ (30 :> "9000")
             @@ (33 :> dcv) @@ (55 :> dur) @@ (56 :> dev) @@ (57 :> "GW1"))

(* generate_cdr_row: the 128 fields of a generated call, the random draws   *)
(* given as arguments; a failed call has duration 0, originating cause 0    *)
(* and no connect time.                                                      *)
generate_cdr_row(epoch, failed, call_id, calling, dest_cause, duration, connect, disconnect) ==
    MkRow(128, (0 :> "1") @@ (1 :> "1") @@ (2 :> call_id) @@ (3 :> "1000")
               @@ (4 :> epoch) @@ (5 :> "1") @@ (6 :> "0")
               @@ (7 :> "10.1.1.100") @@ (8 :> calling) @@ (11 :> "0")
               @@ (28 :> "10.1.1.101") @@ (29 :> "1100") @@ (30 :> "1100")
               @@ (33 :> dest_cause)
               @@ (47 :> IF failed THEN "" ELSE connect)
               @@ (48 :> disconnect)
               @@ (55 :> IF failed THEN "0" ELSE duration)
               @@ (56 :> "CSFUSER001") @@ (57 :> "CSFUSER002"))

Lines ==
    << CallRow(58, "1", "100", "3", "1001", "0", "17", "0", "SEP1"),    \* 1 busy
       CallRow(58, "1", "101", "5", "", "19", "0", "0", "SEP2"),        \* 2 originating cause only
       CallRow(58, "1", "102", "5", "1002", "0", "17", "7", "SEP1"),    \* 3 answered
       CallRow(58, "1", "103", "3", "1001", "0", "16", "0", "SEP1"),    \* 4 normal clearing
       CallRow(40, "1", "104", "3", "1001", "0", "17", "0", "SEP1"),    \* 5 too short
       CallRow(58, "2", "104", "3", "1001", "0", "17", "0", "SEP1"),    \* 6 another record type
       CallRow(58, "1", "104", "abc", "1001", "0", "17", "0", "SEP1"),  \* 7 unparsable epoch
       CallRow(58, "1", "104", "1000000", "1001", "0", "17", "0", "SEP1"), \* 8 epoch out of range
       CallRow(58, "1", "104", "3", LongField, "0", "17", "0", "SEP1"), \* 9 the reader raises
       CallRow(58, "1", "100", "3", "1002", "0", "21", "0", "SEP2"),    \* 10 the key of 1, other attributes
       CallRow(58, "1", "105", "5", "1001", "0", "200", "0", ""),       \* 11 a code in no table
       CallRow(50, "1", "106", "5", "1002", "0", "17", "0", "SEP1"),    \* 12 no duration field
       CallRow(58, "1", "107", "3", "1001", "17", "16", "0", "SEP1"),   \* 13 terminating 16, originating 17
       CallRow(58, "1", "104", "0", "1001", "0", "17", "0", "SEP1"),    \* 14 epoch zero
       <<>>,                                                            \* 15 blank line
       CallRow(58, "1", "108", "5", "1001", "0", "393216", "0", "SEP1"),   \* 16 Cisco normal
       CallRow(58, "1", "104", "", "1001", "0", "17", "0", "SEP1"),     \* 17 epoch empty
       CallRow(58, "1", "109", "5", "1003", "0", "17", "abc", "SEP3"),  \* 18 unparsable duration
       CallRow(58, "1", "110", "5", "1003", "0", "17", "-1", "SEP3"),   \* 19 negative duration
       [CallRow(58, "1", "111", "5", "1001", "0", "17", "0", "SEP1")
            EXCEPT ![48] = "1000000"],                                  \* 20 connect time out of range
       generate_cdr_row("5", TRUE, "100001", "1001", "17", "0", "", "7"),   \* 21 generated, failed
       generate_cdr_row("3", FALSE, "100002", "2001", "16", "16", "5", "21"), \* 22 generated, answered
       generate_cdr_row("3", TRUE, "100003", "1002", "19", "0", "", "4") >> \* 23 generated, failed

LineIds == DOMAIN Lines

(* A file's content is the sequence of the ids of its lines. *)
FileRows(content) == [i \in DOMAIN content |-> Lines[content[i]]]

MaxLines == 2

RECURSIVE SeqsUpTo(_, _)
SeqsUpTo(S, n) ==
    IF n = 0 THEN {<<>>}
    ELSE LET shorter == SeqsUpTo(S, n - 1)
         IN  shorter \cup {Append(s, x) : s \in {t \in shorter : Len(t) = n - 1}, x \in S}

DecodeInputs == SeqsUpTo(LineIds, MaxLines)

(* The contents the fetch collaborator delivers under each name. *)
ContentsOf(name) ==
    IF name = "cdr_a" THEN { <<1, 5, 3, 2>>, <<10, 9, 11>> } ELSE { <<1, 1, 13>> }

FileNames == <<"cdr_a", "cdr_b">>

Delivered(name, content) == [name |-> name, content |-> content]

(* download_cdr_files returns the paths in sorted order, each name once. *)
Batches ==
    {<<>>}
    \cup {<<Delivered(FileNames[1], c)>> : c \in ContentsOf(FileNames[1])}
    \cup {<<Delivered(FileNames[2], c)>> : c \in ContentsOf(FileNames[2])}
    \cup {<<Delivered(FileNames[1], c), Delivered(FileNames[2], d)>> :
              c \in ContentsOf(FileNames[1]), d \in ContentsOf(FileNames[2])}

Runs == {1, 2}

(* generate_test_cdr_files: one file per hour in the output directory, here *)
(* the files of the hours 3 and 5 with the calls drawn for them.             *)
TestFile(stamp, content) == Delivered("cdr_TestCluster_01_" \o stamp \o "_1", content)

GeneratedDirs ==
    {{TestFile("05", <<21>>)}}
    \cup {{TestFile("03", c), TestFile("05", <<21>>)} :
              c \in {<<22>>, <<23>>, <<22, 23>>, <<23, 22>>}}

-----------------------------------------------------------------------------
(* CDRDatabase *)

(* The table without the rows of the set dropped. *)
BagWithout(table, dropped) == [x \in DOMAIN table \ dropped |-> table[x]]

FailedCallRow(record, fh) ==
    [global_call_id               |-> record.global_call_id,
     date_time_origination        |-> record.date_time_origination,
     calling_party_number         |-> record.calling_party_number,
     original_called_party_number |-> record.original_called_party_number,
     final_called_party_number    |-> record.final_called_party_number,
     orig_cause_value             |-> record.orig_cause_value,
     dest_cause_value             |-> record.dest_cause_value,
     failure_reason               |-> failure_reason(record),
     duration                     |-> record.duration,
     orig_device_name             |-> record.orig_device_name,
     dest_device_name             |-> record.dest_device_name,
     file_hash                    |-> fh]

(* UNIQUE(global_call_id, date_time_origination) *)
SameKey(x, y) ==
    /\ x.global_call_id = y.global_call_id
    /\ x.date_time_origination = y.date_time_origination

insert_failed_call_no_unique(table, record, fh) ==
    table (+) SetToBag({FailedCallRow(record, fh)})

insert_failed_call_or_replace(table, record, fh) ==
    BagWithout(table, {x \in DOMAIN table : SameKey(x, FailedCallRow(record, fh))})
        (+) SetToBag({FailedCallRow(record, fh)})

(* INSERT OR IGNORE INTO failed_calls *)
insert_failed_call(table, record, fh) ==
    IF \E x \in BagToSet(table) : SameKey(x, FailedCallRow(record, fh))
    THEN table
    ELSE table (+) SetToBag({FailedCallRow(record, fh)})

is_file_processed_other_hash(table, filename, fh) ==
    \E m \in BagToSet(table) : m.filename = filename /\ m.file_hash # fh

is_file_processed(table, filename, fh) ==
    \E m \in BagToSet(table) : m.filename = filename /\ m.file_hash = fh

MarkerRow(filename, fh, records_processed, failed_calls_found) ==
    [filename           |-> filename,
     file_hash          |-> fh,
     records_processed  |-> records_processed,
     failed_calls_found |-> failed_calls_found]

mark_file_processed_or_ignore(table, filename, fh, records_processed, failed_calls_found) ==
    IF \E m \in BagToSet(table) : m.filename = filename
    THEN table
    ELSE table (+) SetToBag({MarkerRow(filename, fh, records_processed,
                                       failed_calls_found)})

mark_file_processed_keyed_by_hash(table, filename, fh, records_processed, failed_calls_found) ==
    BagWithout(table, {m \in DOMAIN table : m.filename = filename /\ m.file_hash = fh})
        (+) SetToBag({MarkerRow(filename, fh, records_processed, failed_calls_found)})

(* INSERT OR REPLACE INTO processed_files: filename is UNIQUE *)
mark_file_processed(table, filename, fh, records_processed, failed_calls_found) ==
    BagWithout(table, {m \in DOMAIN table : m.filename = filename})
        (+) SetToBag({MarkerRow(filename, fh, records_processed, failed_calls_found)})

HoursPerDay == 24

cleanup_old_records_at_or_before(table, retention_days, clock) ==
    LET cutoff == clock - HoursPerDay * retention_days
    IN  BagWithout(table, {x \in DOMAIN table : x.date_time_origination[1] <= cutoff})

(* DELETE FROM failed_calls WHERE date_time_origination < cutoff *)
cleanup_old_records(table, retention_days, clock) ==
    LET cutoff == clock - HoursPerDay * retention_days
    IN  BagWithout(table, {x \in DOMAIN table : x.date_time_origination[1] < cutoff})

(* cursor.rowcount of that DELETE, which cleanup_old_records returns. *)
deleted_rowcount(table, retention_days, clock) ==
    LET cutoff == clock - HoursPerDay * retention_days
        gone == {x \in DOMAIN table : x.date_time_origination[1] < cutoff}
    IN  BagCardinality([x \in gone |-> table[x]])

InWindowAfterCutoff(table, cutoff) ==
    {x \in DOMAIN table : x.date_time_origination[1] > cutoff}

(* The rows a WHERE date_time_origination >= cutoff selects. *)
InWindow(table, cutoff) ==
    {x \in DOMAIN table : x.date_time_origination[1] >= cutoff}

(* COUNT over the rows of the table that are in the set. *)
CountRows(table, rows) == BagCardinality([x \in rows |-> table[x]])

(* ORDER BY count DESC: nothing orders the groups of equal count; the       *)
(* engine leaves them by ascending or by descending group key.               *)
TieBreaks == {"asc", "desc"}

Precedes(g, h, rank, ties) ==
    \/ g.count > h.count
    \/ /\ g.count = h.count
       /\ IF ties = "asc" THEN rank[g] < rank[h] ELSE rank[g] > rank[h]

RECURSIVE OrderByCountDesc(_, _, _)
OrderByCountDesc(groups, rank, ties) ==
    IF groups = {} THEN <<>>
    ELSE LET first == CHOOSE g \in groups :
                          \A h \in groups \ {g} : Precedes(g, h, rank, ties)
         IN  <<first>> \o OrderByCountDesc(groups \ {first}, rank, ties)

(* LIMIT 10 *)
TopLimit == 10

Limit(rows, n) == SubSeq(rows, 1, IF Len(rows) < n THEN Len(rows) ELSE n)

(* The text keys of the rows of StoreRows, in the order the engine collates  *)
(* them, and the place of a key in that order.                                *)
TextKeys ==
    <<"1001", "1002", "1003", "1004", "1005", "1006", "1007", "1008", "1009",
      "1010", "1011", "9000", "9001", "9003", "9004", "9005", "9006", "9007",
      "9008", "9009", "9010", "9011", "SEP1", "SEP2", "SEP3", "SEP4", "SEP5",
      "SEP6", "SEP7", "SEP8", "SEP9", "SEPA", "SEPB">>

Collation(key) == CHOOSE i \in DOMAIN TextKeys : TextKeys[i] = key

top_ranking_unlimited(table, cutoff, column, ties) ==
    LET rows == {x \in InWindow(table, cutoff) : x[column] # ""}
        groups == {(column :> k) @@ ("count" :> CountRows(table, {x \in rows : x[column] = k})) :
                       k \in {x[column] : x \in rows}}
        rank == [g \in groups |-> Collation(g[column])]
    IN  OrderByCountDesc(groups, rank, ties)

(* SELECT column, COUNT ... WHERE ...    AND column != '' GROUP BY column    *)
(* ORDER BY count DESC LIMIT 10                                               *)
top_ranking(table, cutoff, column, ties) ==
    LET rows == {x \in InWindow(table, cutoff) : x[column] # ""}
        groups == {(column :> k) @@ ("count" :> CountRows(table, {x \in rows : x[column] = k})) :
                       k \in {x[column] : x \in rows}}
        rank == [g \in groups |-> Collation(g[column])]
    IN  Limit(OrderByCountDesc(groups, rank, ties), TopLimit)

(* SELECT dest_cause_value, failure_reason, COUNT ... GROUP BY               *)
(* dest_cause_value ORDER BY count DESC: failure_reason is a bare column,    *)
(* taken from one row of the group that the engine picks, here reason_of.    *)
by_cause(table, cutoff, reason_of, ties) ==
    LET rows == InWindow(table, cutoff)
        groups == {[dest_cause_value |-> c,
                    failure_reason   |-> reason_of[c],
                    count |-> CountRows(table, {x \in rows : x.dest_cause_value = c})] :
                       c \in {x.dest_cause_value : x \in rows}}
        rank == [g \in groups |-> g.dest_cause_value]
    IN  OrderByCountDesc(groups, rank, ties)

(* SELECT strftime('%Y-%m-%d %H:00', ...) as hour, COUNT ... GROUP BY        *)
(* hour ORDER BY hour: the instants are in hours, so the hour is the instant. *)
RECURSIVE OrderByHour(_)
OrderByHour(groups) ==
    IF groups = {} THEN <<>>
    ELSE LET first == CHOOSE g \in groups : \A h \in groups : g.hour <= h.hour
         IN  <<first>> \o OrderByHour(groups \ {first})

by_hour(table, cutoff) ==
    LET rows == InWindow(table, cutoff)
    IN  OrderByHour({[hour  |-> t,
                      count |-> CountRows(table, {x \in rows :
                                                     x.date_time_origination[1] = t})] :
                         t \in {x.date_time_origination[1] : x \in rows}})

get_failure_statistics(table, hours, clock, reason_of, ties) ==
    LET cutoff == clock - hours
    IN  [total_failed_calls    |-> CountRows(table, InWindow(table, cutoff)),
         by_cause              |-> by_cause(table, cutoff, reason_of, ties),
         by_hour               |-> by_hour(table, cutoff),
         top_callers           |-> top_ranking(table, cutoff, "calling_party_number", ties),
         top_destinations      |-> top_ranking(table, cutoff,
                                               "original_called_party_number", ties),
         top_devices           |-> top_ranking(table, cutoff, "orig_device_name", ties),
         analysis_period_hours |-> hours,
         cutoff_time           |-> cutoff]

(* hashlib.md5 over the file's bytes, taken as free of collisions. *)
get_file_hash(content) == <<"md5", content>>

-----------------------------------------------------------------------------
(* Config *)

hours_to_analyze == 24

retention_days == 7

(* The instants the clock passes through, in hours on the scale of the       *)
(* origination epochs of Lines (3 and 5): around the report window's edge    *)
(* and around the retention horizon.                                          *)
Instants == {26, 28, 171, 173}

(* Rows of failed_calls as insert_failed_call writes them, for the queries   *)
(* and the purge on their own: failed calls (duration 0) with originations   *)
(* at 2, 3 and 5, blank and repeated callers, destinations and devices,      *)
(* eleven different values of each, and failures known from the originating  *)
(* side only.                                                                 *)
StoreRow(n, dto, calling, called, ocv, dcv, dev) ==
    FailedCallRow(CDRRecord("2-" \o n, <<dto>>, calling, called, called, ocv, dcv, 0,
                            dev, "GW1"),
                  get_file_hash(<<1>>))

StoreRows ==
    << StoreRow("01", 5, "",     "9000", 0,  17,  ""),
       StoreRow("02", 5, "",     "9001", 0,  17,  "SEP1"),
       StoreRow("03", 5, "1001", "9000", 0,  19,  "SEP2"),
       StoreRow("04", 5, "",     "",     19, 0,   "SEP1"),
       StoreRow("05", 5, "1001", "9000", 17, 0,   "SEP1"),
       StoreRow("06", 3, "1002", "9000", 0,  17,  "SEP2"),
       StoreRow("07", 3, "1003", "9003", 0,  17,  "SEP3"),
       StoreRow("08", 2, "1004", "9004", 0,  21,  "SEP4"),
       StoreRow("09", 5, "1005", "9005", 0,  17,  "SEP5"),
       StoreRow("10", 5, "1006", "9006", 0,  19,  "SEP6"),
       StoreRow("11", 3, "1007", "9007", 0,  200, "SEP7"),
       StoreRow("12", 5, "1008", "9008", 0,  17,  "SEP8"),
       StoreRow("13", 2, "1009", "9009", 0,  17,  "SEP9"),
       StoreRow("14", 5, "1010", "9010", 0,  1,   "SEPA"),
       StoreRow("15", 5, "1011", "9011", 0,  17,  "SEPB") >>

(* The instants the queries and the purge are started at: those of the runs *)
(* and the one whose window opens exactly at the origination 3.               *)
StoreInstants == Instants \cup {27}

(* The tables: every run of consecutive rows of StoreRows, the empty one     *)
(* included.                                                                  *)
StoreTables ==
    {SetToBag({StoreRows[k] : k \in i..j}) :
         i \in 1..Len(StoreRows), j \in 0..Len(StoreRows)}

-----------------------------------------------------------------------------
(* CDRReporter: fetch_and_process_cdr_files, generate_and_send_report,       *)
(* cleanup and run, one step per store or file operation                      *)

CurrentFile(r) == batch[r][idx[r]]

NoLocals ==
    [batch |-> <<>>, idx |-> 1, file_hash |-> <<>>, records |-> <<>>, pos |-> 1,
     failed_count |-> 0, total_records |-> 0, total_failed |-> 0]

RunsIdle ==
    /\ processed_files = EmptyBag
    /\ pc = [r \in Runs |-> "idle"]
    /\ batch = [r \in Runs |-> NoLocals.batch]
    /\ idx = [r \in Runs |-> NoLocals.idx]
    /\ file_hash = [r \in Runs |-> NoLocals.file_hash]
    /\ records = [r \in Runs |-> NoLocals.records]
    /\ pos = [r \in Runs |-> NoLocals.pos]
    /\ failed_count = [r \in Runs |-> NoLocals.failed_count]
    /\ total_records = [r \in Runs |-> NoLocals.total_records]
    /\ total_failed = [r \in Runs |-> NoLocals.total_failed]
    /\ offered = [r \in Runs |-> {}]
    /\ unread = [r \in Runs |-> {}]
    /\ ev = [r \in Runs |-> "init"]

RunInit ==
    /\ now = 26
    /\ failed_calls = EmptyBag
    /\ RunsIdle

(* The locals of fetch_and_process_cdr_files go out of scope. *)
DropLocals(r) ==
    /\ batch' = [batch EXCEPT ![r] = NoLocals.batch]
    /\ idx' = [idx EXCEPT ![r] = NoLocals.idx]
    /\ file_hash' = [file_hash EXCEPT ![r] = NoLocals.file_hash]
    /\ records' = [records EXCEPT ![r] = NoLocals.records]
    /\ pos' = [pos EXCEPT ![r] = NoLocals.pos]
    /\ failed_count' = [failed_count EXCEPT ![r] = NoLocals.failed_count]
    /\ total_records' = [total_records EXCEPT ![r] = NoLocals.total_records]
    /\ total_failed' = [total_failed EXCEPT ![r] = NoLocals.total_failed]
    /\ offered' = [offered EXCEPT ![r] = {}]
    /\ unread' = [unread EXCEPT ![r] = {}]

(* run(skip_fetch): with skip_fetch the ingestion is left out altogether;    *)
(* otherwise fetcher.connect() and download_cdr_files() give the batch.       *)
Start(r, skip_fetch, files) ==
    /\ UNCHANGED auxVars
    /\ pc[r] = "idle"
    /\ skip_fetch => files = <<>>
    /\ batch' = [batch EXCEPT ![r] = files]
    /\ idx' = [idx EXCEPT ![r] = 1]
    /\ pc' = [pc EXCEPT ![r] = IF skip_fetch \/ files = <<>> THEN "report" ELSE "file"]
    /\ ev' = [ev EXCEPT ![r] = IF skip_fetch THEN "skip_fetch" ELSE "fetch"]
    /\ UNCHANGED <<now, failed_calls, processed_files, file_hash, records, pos,
                   failed_count, total_records, total_failed, offered, unread>>

RaiseSwallowed(r, what) ==
    /\ pc' = [pc EXCEPT ![r] = "report"]
    /\ ev' = [ev EXCEPT ![r] = what]

(* An exception that leaves fetch_and_process_cdr_files: logged at line 1125 *)
(* and re-raised, then logged and re-raised by run.                           *)
Raise(r, what) ==
    /\ pc' = [pc EXCEPT ![r] = "failed"]
    /\ ev' = [ev EXCEPT ![r] = what]

NextFileEndsLoop(r) ==
    /\ idx' = [idx EXCEPT ![r] = idx[r] + 1]
    /\ pc' = [pc EXCEPT ![r] = "report"]

(* The for loop over downloaded_files moves on, or ends. *)
NextFile(r) ==
    /\ idx' = [idx EXCEPT ![r] = idx[r] + 1]
    /\ pc' = [pc EXCEPT ![r] = IF idx[r] < Len(batch[r]) THEN "file" ELSE "report"]

(* open() in get_file_hash raises: nothing around line 1103 catches it. *)
GetFileHashFails(r) ==
    /\ UNCHANGED auxVars
    /\ pc[r] = "file"
    /\ unread' = [unread EXCEPT ![r] = @ \cup {idx[r]}]
    /\ Raise(r, "hash_error")
    /\ UNCHANGED <<now, failed_calls, processed_files, batch, idx, file_hash, records,
                   pos, failed_count, total_records, total_failed, offered>>

(* Lines 1103-1108: the file is fingerprinted and found processed. *)
SkipProcessed(r) ==
    /\ UNCHANGED auxVars
    /\ pc[r] = "file"
    /\ is_file_processed(processed_files, CurrentFile(r).name,
                         get_file_hash(CurrentFile(r).content))
    /\ file_hash' = [file_hash EXCEPT ![r] = get_file_hash(CurrentFile(r).content)]
    /\ NextFile(r)
    /\ ev' = [ev EXCEPT ![r] = "skip"]
    /\ UNCHANGED <<now, failed_calls, processed_files, batch, records, pos,
                   failed_count, total_records, total_failed, offered, unread>>

(* Lines 1103-1113: the file is fingerprinted, found not processed, parsed. *)
Parsed(r, result) ==
    /\ pc[r] = "file"
    /\ ~is_file_processed(processed_files, CurrentFile(r).name,
                          get_file_hash(CurrentFile(r).content))
    /\ file_hash' = [file_hash EXCEPT ![r] = get_file_hash(CurrentFile(r).content)]
    /\ records' = [records EXCEPT ![r] = result.records]
    /\ total_records' = [total_records EXCEPT ![r] = @ + Len(result.records)]
    /\ failed_count' = [failed_count EXCEPT ![r] = 0]
    /\ pos' = [pos EXCEPT ![r] = 1]
    /\ offered' = [offered EXCEPT ![r] = {}]
    /\ pc' = [pc EXCEPT ![r] = "insert"]

ParseFile(r) ==
    /\ UNCHANGED auxVars
    /\ Parsed(r, parse_file(FileRows(CurrentFile(r).content)))
    /\ ev' = [ev EXCEPT ![r] = "parse"]
    /\ UNCHANGED <<now, failed_calls, processed_files, batch, idx, total_failed, unread>>

(* open() in parse_file raises: the outer except logs it and parse_file      *)
(* returns ([], 0).                                                           *)
ParseFileUnreadable(r) ==
    /\ UNCHANGED auxVars
    /\ Parsed(r, [records |-> <<>>, total_rows |-> 0])
    /\ unread' = [unread EXCEPT ![r] = @ \cup {idx[r]}]
    /\ ev' = [ev EXCEPT ![r] = "parse_error"]
    /\ UNCHANGED <<now, failed_calls, processed_files, batch, idx, total_failed>>

(* One iteration of the for loop over records, lines 1114-1117. *)
InsertStep(r) ==
    /\ UNCHANGED auxVars
    /\ pc[r] = "insert"
    /\ pos[r] <= Len(records[r])
    /\ LET record == records[r][pos[r]] IN
         IF is_failed(record)
         THEN /\ failed_calls' = insert_failed_call(failed_calls, record, file_hash[r])
              /\ failed_count' = [failed_count EXCEPT ![r] = @ + 1]
              /\ offered' = [offered EXCEPT ![r] = @ \cup {record}]
              /\ ev' = [ev EXCEPT ![r] = IF failed_calls' = failed_calls
                                         THEN "ignored" ELSE "inserted"]
         ELSE /\ UNCHANGED <<failed_calls, failed_count, offered>>
              /\ ev' = [ev EXCEPT ![r] = "pass"]
    /\ pos' = [pos EXCEPT ![r] = @ + 1]
    /\ UNCHANGED <<now, processed_files, pc, batch, idx, file_hash, records,
                   total_records, total_failed, unread>>

(* The INSERT or its commit raises something other than IntegrityError. *)
InsertFails(r) ==
    /\ UNCHANGED auxVars
    /\ pc[r] = "insert"
    /\ pos[r] <= Len(records[r])
    /\ is_failed(records[r][pos[r]])
    /\ Raise(r, "insert_error")
    /\ UNCHANGED <<now, failed_calls, processed_files, batch, idx, file_hash, records,
                   pos, failed_count, total_records, total_failed, offered, unread>>

(* Lines 1119-1121, after the last record. *)
MarkFileProcessed(r) ==
    /\ UNCHANGED auxVars
    /\ pc[r] = "insert"
    /\ pos[r] > Len(records[r])
    /\ total_failed' = [total_failed EXCEPT ![r] = @ + failed_count[r]]
    /\ processed_files' = mark_file_processed(processed_files, CurrentFile(r).name,
                              file_hash[r], Len(records[r]), failed_count[r])
    /\ NextFile(r)
    /\ ev' = [ev EXCEPT ![r] =
                 IF \E m \in BagToSet(processed_files) :
                        m.filename = CurrentFile(r).name /\ m.file_hash # file_hash[r]
                 THEN "remarked" ELSE "marked"]
    /\ UNCHANGED <<now, failed_calls, batch, file_hash, records, pos, failed_count,
                   total_records, offered, unread>>

MarkFails(r) ==
    /\ UNCHANGED auxVars
    /\ pc[r] = "insert"
    /\ pos[r] > Len(records[r])
    /\ total_failed' = [total_failed EXCEPT ![r] = @ + failed_count[r]]
    /\ Raise(r, "mark_error")
    /\ UNCHANGED <<now, failed_calls, processed_files, batch, idx, file_hash, records,
                   pos, failed_count, total_records, offered, unread>>

(* Line 1177, reached with skip_fetch or after the ingestion returned. *)
GenerateAndSendReport(r) ==
    /\ UNCHANGED auxVars
    /\ pc[r] = "report"
    /\ pc' = [pc EXCEPT ![r] = "cleanup"]
    /\ ev' = [ev EXCEPT ![r] = "report"]
    /\ DropLocals(r)
    /\ UNCHANGED <<now, failed_calls, processed_files>>

(* cleanup(), then run's finally: self.db.close(). *)
Cleanup(r) ==
    /\ UNCHANGED auxVars
    /\ pc[r] = "cleanup"
    /\ failed_calls' = cleanup_old_records(failed_calls, retention_days, now)
    /\ pc' = [pc EXCEPT ![r] = "done"]
    /\ ev' = [ev EXCEPT ![r] = "cleanup"]
    /\ UNCHANGED <<now, processed_files, batch, idx, file_hash, records, pos,
                   failed_count, total_records, total_failed, offered, unread>>

CloseDiscardsStore(r) ==
    /\ UNCHANGED auxVars
    /\ pc[r] = "failed"
    /\ pc' = [pc EXCEPT ![r] = "aborted"]
    /\ ev' = [ev EXCEPT ![r] = "close"]
    /\ DropLocals(r)
    /\ failed_calls' = EmptyBag
    /\ UNCHANGED <<now, processed_files>>

(* run's finally after an exception: self.db.close(). *)
Close(r) ==
    /\ UNCHANGED auxVars
    /\ pc[r] = "failed"
    /\ pc' = [pc EXCEPT ![r] = "aborted"]
    /\ ev' = [ev EXCEPT ![r] = "close"]
    /\ DropLocals(r)
    /\ UNCHANGED <<now, failed_calls, processed_files>>

Tick ==
    /\ UNCHANGED auxVars
    /\ \E t \in Instants : t > now /\ now' = t
    /\ UNCHANGED <<failed_calls, processed_files, pc, batch, idx, file_hash, records,
                   pos, failed_count, total_records, total_failed, offered, unread, ev>>

Next ==
    \/ \E r \in Runs, skip_fetch \in BOOLEAN, files \in Batches : Start(r, skip_fetch, files)
    \/ \E r \in Runs : GetFileHashFails(r)
    \/ \E r \in Runs : SkipProcessed(r)
    \/ \E r \in Runs : ParseFile(r)
    \/ \E r \in Runs : ParseFileUnreadable(r)
    \/ \E r \in Runs : InsertStep(r)
    \/ \E r \in Runs : InsertFails(r)
    \/ \E r \in Runs : MarkFileProcessed(r)
    \/ \E r \in Runs : MarkFails(r)
    \/ \E r \in Runs : GenerateAndSendReport(r)
    \/ \E r \in Runs : Cleanup(r)
    \/ \E r \in Runs : Close(r)
    \/ Tick

(* The process of a finished run is gone and the scheduler starts the       *)
(* program again: main builds a new CDRReporter on the same store.           *)
Again(r) ==
    /\ UNCHANGED auxVars
    /\ pc[r] \in {"done", "aborted"}
    /\ pc' = [pc EXCEPT ![r] = "idle"]
    /\ ev' = [ev EXCEPT ![r] = "init"]
    /\ UNCHANGED <<now, failed_calls, processed_files, batch, idx, file_hash, records,
                   pos, failed_count, total_records, total_failed, offered, unread>>

(* The step run r takes next: run() is one thread of control, so a run that *)
(* can take a step takes one.                                                *)
RunStep(r) ==
    \/ GetFileHashFails(r)
    \/ SkipProcessed(r)
    \/ ParseFile(r)
    \/ ParseFileUnreadable(r)
    \/ InsertStep(r)
    \/ InsertFails(r)
    \/ MarkFileProcessed(r)
    \/ MarkFails(r)
    \/ GenerateAndSendReport(r)
    \/ Cleanup(r)
    \/ Close(r)

-----------------------------------------------------------------------------
(* The classifier on its own *)

Durations == {0, 1, 7, 0 - 1}

Causes == {0, 16, 17, 19, 31, 200, 393216, 458752}

ClassifyInputs ==
    {CDRRecord("1-100", <<3>>, "1001", "9000", "9000", ocv, dcv, dur, "SEP1", "GW1") :
         ocv \in Causes, dcv \in Causes, dur \in Durations}

Pending == [done |-> FALSE]

ClassifyIdle ==
    /\ crec = CDRRecord("", None, "", "", "", 0, 0, 0, "", "")
    /\ verdict = Pending

Classify ==
    /\ verdict = Pending
    /\ verdict' = [done               |-> TRUE,
                   is_failed          |-> is_failed(crec),
                   failure_reason     |-> failure_reason(crec),
                   primary_cause_code |-> primary_cause_code(crec)]
    /\ UNCHANGED <<crec, runVars, decodeVars, storeVars, local_cdr_dir, delivery>>

-----------------------------------------------------------------------------
(* The decoder on its own *)

DecodeIdle ==
    /\ dfile = <<>>
    /\ dresult = Pending

Decode ==
    /\ dresult = Pending
    /\ dresult' = [done       |-> TRUE,
                   records    |-> parse_file(FileRows(dfile)).records,
                   total_rows |-> parse_file(FileRows(dfile)).total_rows]
    /\ UNCHANGED <<dfile, runVars, classifyVars, storeVars, local_cdr_dir, delivery>>

-----------------------------------------------------------------------------
(* The queries and the purge on their own *)

(* The place of a row of StoreRows in the table: its rowid. *)
RowId(x) == CHOOSE k \in DOMAIN StoreRows : StoreRows[k] = x

(* The row of each group the engine takes the bare failure_reason from: any  *)
(* row of the group, here the one with pick modulo the group's size rows of  *)
(* the group before it.                                                       *)
ReasonPick(table, cutoff, pick) ==
    LET rows == InWindow(table, cutoff)
        group(c) == {x \in rows : x.dest_cause_value = c}
    IN  [c \in {x.dest_cause_value : x \in rows} |->
            (CHOOSE x \in group(c) :
                 Cardinality({y \in group(c) : RowId(y) < RowId(x)})
                     = pick % Cardinality(group(c))).failure_reason]

RECURSIVE OrderByOriginationAsc(_, _)
OrderByOriginationAsc(rows, ties) ==
    IF rows = {} THEN <<>>
    ELSE LET first == CHOOSE x \in rows : \A y \in rows \ {x} :
                 \/ x.date_time_origination[1] < y.date_time_origination[1]
                 \/ /\ x.date_time_origination[1] = y.date_time_origination[1]
                    /\ IF ties = "asc" THEN RowId(x) < RowId(y) ELSE RowId(x) > RowId(y)
         IN  <<first>> \o OrderByOriginationAsc(rows \ {first}, ties)

(* SELECT * FROM failed_calls WHERE date_time_origination >= cutoff ORDER BY *)
(* date_time_origination DESC: nothing orders the rows of one origination;   *)
(* the engine leaves them by ascending or by descending rowid.               *)
RECURSIVE OrderByOriginationDesc(_, _)
OrderByOriginationDesc(rows, ties) ==
    IF rows = {} THEN <<>>
    ELSE LET first == CHOOSE x \in rows : \A y \in rows \ {x} :
                 \/ x.date_time_origination[1] > y.date_time_origination[1]
                 \/ /\ x.date_time_origination[1] = y.date_time_origination[1]
                    /\ IF ties = "asc" THEN RowId(x) < RowId(y) ELSE RowId(x) > RowId(y)
         IN  <<first>> \o OrderByOriginationDesc(rows \ {first}, ties)

get_failed_calls(table, hours, clock, ties) ==
    OrderByOriginationDesc(InWindow(table, clock - hours), ties)

(* generate_and_send_report, line 1136: db.get_failed_calls(hours), after    *)
(* the statistics and with its own reading of the clock.                      *)
QueryFailedCalls(ties) ==
    /\ stats # Pending
    /\ calls = Pending
    /\ calls' = [done |-> TRUE,
                 rows |-> get_failed_calls(failed_calls, hours_to_analyze, now, ties)]
    /\ UNCHANGED <<runVars, classifyVars, decodeVars, purged, stats, local_cdr_dir, delivery>>

(* generate_and_send_report, line 1135: db.get_failure_statistics(hours). *)
Snapshot(pick, ties) ==
    /\ stats = Pending
    /\ stats' = [done |-> TRUE]
                 @@ get_failure_statistics(failed_calls, hours_to_analyze, now,
                        ReasonPick(failed_calls, now - hours_to_analyze, pick), ties)
    /\ UNCHANGED <<runVars, classifyVars, decodeVars, purged, calls, local_cdr_dir, delivery>>

(* cleanup, line 1154: db.cleanup_old_records(retention_days). *)
Purge ==
    /\ purged = Pending
    /\ failed_calls' = cleanup_old_records(failed_calls, retention_days, now)
    /\ purged' = [done    |-> TRUE,
                  deleted |-> deleted_rowcount(failed_calls, retention_days, now)]
    /\ UNCHANGED <<now, processed_files, pc, batch, idx, file_hash, records, pos,
                   failed_count, total_records, total_failed, offered, unread, ev>>
    /\ UNCHANGED <<classifyVars, decodeVars, stats, calls, local_cdr_dir, delivery>>

-----------------------------------------------------------------------------
(* Specifications *)

StoreIdle ==
    /\ purged = Pending
    /\ stats = Pending
    /\ calls = Pending

(* No local file and no delivery: what the other specifications start from. *)
OtherIdle ==
    /\ StoreIdle
    /\ local_cdr_dir = {}
    /\ delivery = <<>>

Init == RunInit /\ ClassifyIdle /\ DecodeIdle /\ OtherIdle

Spec == Init /\ [][Next]_vars

ClassifyInit ==
    /\ RunInit
    /\ DecodeIdle
    /\ OtherIdle
    /\ crec \in ClassifyInputs
    /\ verdict = Pending

ClassifyNext == Classify

ClassifySpec == ClassifyInit /\ [][ClassifyNext]_vars

DecodeInit ==
    /\ RunInit
    /\ ClassifyIdle
    /\ OtherIdle
    /\ dfile \in DecodeInputs
    /\ dresult = Pending

DecodeNext == Decode

DecodeSpec == DecodeInit /\ [][DecodeNext]_vars

(* One invocation of run() after the other, each going on until it returns  *)
(* or raises.                                                                *)
OneRunNext ==
    \/ \E skip_fetch \in BOOLEAN, files \in Batches : Start(1, skip_fetch, files)
    \/ GetFileHashFails(1)
    \/ SkipProcessed(1)
    \/ ParseFile(1)
    \/ ParseFileUnreadable(1)
    \/ InsertStep(1)
    \/ InsertFails(1)
    \/ MarkFileProcessed(1)
    \/ MarkFails(1)
    \/ GenerateAndSendReport(1)
    \/ Cleanup(1)
    \/ Close(1)
    \/ Again(1)
    \/ Tick

OneRunSpec == Init /\ [][OneRunNext]_vars /\ WF_vars(RunStep(1))

(* Two invocations of run() that the scheduler lets overlap on one delivery: *)
(* both download the same batch, and no read or store write fails.           *)
OverlapInit ==
    /\ RunInit
    /\ ClassifyIdle
    /\ DecodeIdle
    /\ StoreIdle
    /\ local_cdr_dir = {}
    /\ delivery \in Batches \ {<<>>}

OverlapNext ==
    \/ \E r \in Runs : Start(r, FALSE, delivery)
    \/ \E r \in Runs : SkipProcessed(r)
    \/ \E r \in Runs : ParseFile(r)
    \/ \E r \in Runs : InsertStep(r)
    \/ \E r \in Runs : MarkFileProcessed(r)
    \/ \E r \in Runs : GenerateAndSendReport(r)
    \/ \E r \in Runs : Cleanup(r)
    \/ Tick

OverlapSpec == OverlapInit /\ [][OverlapNext]_vars

(* python generate_test_data.py, then runs started with --skip-fetch. *)
SkipFetchInit ==
    /\ RunInit
    /\ ClassifyIdle
    /\ DecodeIdle
    /\ StoreIdle
    /\ local_cdr_dir \in GeneratedDirs
    /\ delivery = <<>>

SkipFetchNext ==
    \/ \E r \in Runs : Start(r, TRUE, <<>>)
    \/ \E r \in Runs : GenerateAndSendReport(r)
    \/ \E r \in Runs : Cleanup(r)
    \/ Tick

SkipFetchSpec == SkipFetchInit /\ [][SkipFetchNext]_vars

StoreInit ==
    /\ now \in StoreInstants
    /\ failed_calls \in StoreTables
    /\ RunsIdle
    /\ ClassifyIdle
    /\ DecodeIdle
    /\ OtherIdle

StoreNext ==
    \/ \E pick \in DOMAIN StoreRows, ties \in TieBreaks : Snapshot(pick, ties)
    \/ \E ties \in TieBreaks : QueryFailedCalls(ties)
    \/ Purge
    \/ Tick

StoreSpec == StoreInit /\ [][StoreNext]_vars

-----------------------------------------------------------------------------
(* Properties *)

Range(s) == {s[i] : i \in DOMAIN s}

Markers == BagToSet(processed_files)

Entries == BagToSet(failed_calls)

(* C1: a classified record is failed iff its duration is 0 and its           *)
(* terminating or its originating cause code is outside {0, 16, 393216}; a   *)
(* nonzero duration is never failed, and a code in no table is a failure at  *)
(* duration 0.                                                                *)
C1_IsFailedIff ==
    verdict.done =>
        (verdict.is_failed <=>
            /\ crec.duration = 0
            /\ \/ crec.dest_cause_value \notin {0, 16, 393216}
               \/ crec.orig_cause_value \notin {0, 16, 393216})

C1_Witness ==
    /\ verdict.done
    /\ verdict.is_failed
    /\ crec.duration = 0
    /\ crec.dest_cause_value = 16
    /\ crec.orig_cause_value = 200

(* C2: primary_cause_code is the terminating cause when it is nonzero and    *)
(* the originating cause otherwise; reason is the table's text of that code, *)
(* or "Unknown cause code: <code>" when the table has no entry for it.        *)
C2_ReasonOfPrimaryCause ==
    verdict.done =>
        LET code == IF crec.dest_cause_value # 0
                    THEN crec.dest_cause_value
                    ELSE crec.orig_cause_value
        IN  /\ verdict.primary_cause_code = code
            /\ code \in DOMAIN CAUSE_CODES => verdict.failure_reason = CAUSE_CODES[code]
            /\ code \notin DOMAIN CAUSE_CODES =>
                   verdict.failure_reason = "Unknown cause code: " \o ToString(code)

C2_Witness ==
    /\ verdict.done
    /\ crec.dest_cause_value = 0
    /\ crec.orig_cause_value = 200
    /\ verdict.primary_cause_code = 200
    /\ verdict.failure_reason = "Unknown cause code: 200"

(* C3: the store never holds two FailedCallEntry rows with the same call     *)
(* identifier and origination timestamp.                                      *)
C3_OneEntryPerKey ==
    /\ \A x \in Entries : failed_calls[x] = 1
    /\ \A x, y \in Entries :
           (/\ x.global_call_id = y.global_call_id
            /\ x.date_time_origination = y.date_time_origination) => x = y

C3_Witness ==
    /\ \E r \in Runs : ev[r] = "ignored"
    /\ \E r \in Runs : pc[r] = "done"
    /\ Cardinality(Entries) >= 2

(* C4: an insert_failed_call whose key is already in the store raises        *)
(* nothing and changes nothing: the entry keeps the attributes of the first  *)
(* insert, also when the new record's attributes differ.                      *)
C4_DuplicateInsertIsNoOp ==
    [][\A r \in Runs :
          (/\ pc[r] = "insert"
           /\ pos'[r] = pos[r] + 1
           /\ is_failed(records[r][pos[r]])
           /\ \E x \in Entries :
                  /\ x.global_call_id = records[r][pos[r]].global_call_id
                  /\ x.date_time_origination = records[r][pos[r]].date_time_origination)
          => /\ failed_calls' = failed_calls
             /\ processed_files' = processed_files
             /\ pc'[r] = "insert"]_vars

C4_Witness ==
    \E r \in Runs :
        /\ ev[r] = "ignored"
        /\ \E x \in Entries :
               /\ x.global_call_id = records[r][pos[r] - 1].global_call_id
               /\ x.date_time_origination = records[r][pos[r] - 1].date_time_origination
               /\ x.file_hash # file_hash[r]
               /\ x.failure_reason # failure_reason(records[r][pos[r] - 1])
               /\ x.calling_party_number # records[r][pos[r] - 1].calling_party_number

(* C5: a delivered file whose name and fingerprint are already marked is     *)
(* passed over: no FailedCallEntry is added, its marker stays as it was, and *)
(* the run goes on to the next file.                                          *)
C5_ProcessedFileSkipped ==
    [][\A r \in Runs :
          (/\ pc[r] = "file"
           /\ pc'[r] # pc[r] \/ idx'[r] # idx[r]
           /\ pc'[r] # "failed"
           /\ \E m \in Markers :
                  /\ m.filename = batch[r][idx[r]].name
                  /\ m.file_hash = <<"md5", batch[r][idx[r]].content>>)
          => /\ failed_calls' = failed_calls
             /\ processed_files' = processed_files
             /\ idx'[r] = idx[r] + 1
             /\ pc'[r] \in {"file", "report"}]_vars

C5_Witness ==
    \E r \in Runs :
        /\ ev[r] = "skip"
        /\ \E m \in Markers :
               /\ m.filename = batch[r][idx[r] - 1].name
               /\ m.file_hash = file_hash[r]
               /\ m.failed_calls_found > 0

C7_OneMarkerPerFilename ==
    /\ \A m \in Markers : processed_files[m] = 1
    /\ \A m, n \in Markers : m.filename = n.filename => m = n

C7_Witness ==
    /\ \A r \in Runs :
           /\ ev[r] \in {"marked", "remarked"}
           /\ batch[r][idx[r] - 1].name = "cdr_a"
    /\ \E r \in Runs : ev[r] = "remarked"
    /\ Cardinality(Markers) = 1

(* A well-formed call-leg line whose origination epoch is 3 or 5 and whose   *)
(* connect and disconnect times are in range.                                 *)
WellFormed(row) ==
    /\ Len(row) >= 50
    /\ row[1] = "1"
    /\ row[5] \in {"3", "5"}
    /\ \A i \in DOMAIN row : row[i] # LongField
    /\ ~RowRaises(row)

ReadUpTo(i) == \A j \in 1..i : ~ReaderRaises(Lines[dfile[j]])

(* C8: a line of fewer than 50 fields gives no record and no error, and the  *)
(* decoder goes on with the next line.                                        *)
C8_ShortLineSkipped ==
    dresult.done =>
        \A i \in DOMAIN dfile :
            Len(Lines[dfile[i]]) < 50 =>
                /\ \A k \in DOMAIN dresult.records :
                       dresult.records[k] # RowRecord(Lines[dfile[i]])
                /\ ReadUpTo(i) => dresult.total_rows >= i
                /\ (/\ i < Len(dfile)
                    /\ ReadUpTo(i + 1)
                    /\ WellFormed(Lines[dfile[i + 1]]))
                   => /\ dresult.total_rows >= i + 1
                      /\ RowRecord(Lines[dfile[i + 1]]) \in Range(dresult.records)

C8_Witness ==
    /\ dresult.done
    /\ dfile = <<5, 2>>
    /\ Len(dresult.records) = 1
    /\ dresult.records[1].global_call_id = "1-101"
    /\ dresult.total_rows = 2

(* C9: a malformed line never ends the decoding of its file: every           *)
(* well-formed call-leg line after it is decoded into a record.               *)
C9_MalformedLineNeverAborts ==
    dresult.done =>
        \A i, j \in DOMAIN dfile :
            (/\ i < j
             /\ ~WellFormed(Lines[dfile[i]])
             /\ WellFormed(Lines[dfile[j]]))
            => \E k \in DOMAIN dresult.records :
                   dresult.records[k].global_call_id
                       = RowRecord(Lines[dfile[j]]).global_call_id

(* C10: a file of the batch that cannot be read does not end the run: the    *)
(* failure stays inside the loop over the batch, which goes on with the      *)
(* files that remain.                                                         *)
C10_UnreadableFileSkipped ==
    \A r \in Runs :
        (unread[r] # {} /\ ev[r] \notin {"insert_error", "mark_error"})
        => /\ pc[r] # "failed"
           /\ pc[r] = "report" => idx[r] > Len(batch[r])

(* C11: no marker is written for a file that could not be read, whether the  *)
(* read failed while fingerprinting or while decoding, so that the next run  *)
(* does not skip that file as processed.                                      *)
C11_NoMarkerForUnreadFile ==
    \A r \in Runs :
        ev[r] \in {"marked", "remarked"} => (idx[r] - 1) \notin unread[r]

(* C12: when an insert or a marker write fails during the ingestion with     *)
(* something other than a key collision, the error leaves run: the run goes  *)
(* from the failed write to the close of the store and nowhere else, so it   *)
(* computes no snapshot and generates and sends no report.                    *)
C12_StoreWriteFailureAbortsRun ==
    [][\A r \in Runs :
           /\ ev'[r] \in {"insert_error", "mark_error"} => pc'[r] = "failed"
           /\ pc[r] = "failed" => pc'[r] \in {"failed", "aborted"}
           /\ pc[r] = "aborted" => pc'[r] = "aborted"]_vars

C12_Witness ==
    \E r \in Runs :
        /\ pc[r] = "failed"
        /\ ev[r] = "insert_error"
        /\ failed_count[r] = 1
        /\ failed_calls # EmptyBag

(* C13: the entries of a file and its marker reach the store as one unit: in *)
(* every state, also after a run was aborted in the middle of a file, the    *)
(* store holds none of the entries the file contributes, or holds them       *)
(* together with a marker of the file.                                        *)
C13_FileIsOneUnitOfWork ==
    \A i \in DOMAIN FileNames :
        \A content \in ContentsOf(FileNames[i]) :
            \/ \A x \in Entries : x.file_hash # get_file_hash(content)
            \/ \E m \in Markers : m.filename = FileNames[i]

(* The failed records of a file, in file order. *)
FailedOf(content) == SelectSeq(parse_file(FileRows(content)).records, is_failed)

RECURSIVE InsertAll(_, _, _, _)
InsertAll(table, recs, fh, i) ==
    IF i > Len(recs) THEN table
    ELSE InsertAll(insert_failed_call(table, recs[i], fh), recs, fh, i + 1)

(* The store one run alone leaves when it has ingested the files from i on,  *)
(* before its purge.                                                           *)
RECURSIVE IngestAlone(_, _, _, _)
IngestAlone(files, i, table, markers) ==
    IF i > Len(files) THEN [failed_calls |-> table, processed_files |-> markers]
    ELSE LET fh == get_file_hash(files[i].content)
             recs == parse_file(FileRows(files[i].content)).records
         IN  IngestAlone(files, i + 1,
                 InsertAll(table, FailedOf(files[i].content), fh, 1),
                 mark_file_processed(markers, files[i].name, fh, Len(recs),
                                     Len(FailedOf(files[i].content))))

Alone == IngestAlone(delivery, 1, EmptyBag, EmptyBag)

(* C14: when two runs overlap on the same delivered file, under every        *)
(* interleaving of their processed-file lookups, inserts and marker writes,  *)
(* no key is ever held twice, and when both runs are over the store is the   *)
(* one a single run leaves: the same entries, purged at some instant up to   *)
(* now, and per file one marker with the same fingerprint and counts.         *)
C14_OverlapEqualsSingleRun ==
    /\ \A x \in Entries : failed_calls[x] = 1
    /\ \A x, y \in Entries : SameKey(x, y) => x = y
    /\ (\A r \in Runs : pc[r] = "done") =>
           /\ \E t \in Instants :
                  /\ t <= now
                  /\ failed_calls
                         = cleanup_old_records(Alone.failed_calls, retention_days, t)
           /\ processed_files = Alone.processed_files

C14_Witness ==
    /\ \A r \in Runs : pc[r] = "insert" /\ idx[r] = 1 /\ failed_count[r] = 2
    /\ ev[1] = "ignored"
    /\ ev[2] = "inserted"

(* The entries whose origination is at or after the cutoff. *)
EntriesSince(cutoff) == {x \in Entries : x.date_time_origination[1] >= cutoff}

RECURSIVE SumOfCounts(_, _)
SumOfCounts(groups, i) ==
    IF i > Len(groups) THEN 0 ELSE groups[i].count + SumOfCounts(groups, i + 1)

(* C15: the purge deletes exactly the rows whose origination is strictly     *)
(* earlier than now minus the retention days, returns the number of rows it  *)
(* deleted, and keeps every other row, the one at the boundary included.      *)
C15_PurgeStrictlyOlder ==
    [][purged' # purged =>
          LET cutoff == now - 24 * retention_days
              old == {x \in Entries : x.date_time_origination[1] < cutoff}
          IN  /\ DOMAIN failed_calls' = Entries \ old
              /\ \A x \in Entries \ old : failed_calls'[x] = failed_calls[x]
              /\ purged'.deleted = Cardinality(old)]_vars

C15_Witness ==
    /\ purged.done
    /\ purged.deleted = 2
    /\ now = 173
    /\ Entries # {}
    /\ \A x \in Entries : x.date_time_origination[1] = 5

(* C16: the snapshot is computed over exactly the rows whose origination is  *)
(* at or after now minus the window hours: total_failed_calls is their       *)
(* number, 0 when there are none, and the cause and hour groupings count the *)
(* same rows.                                                                 *)
C16_SnapshotWindow ==
    [][stats' # stats =>
          LET window == EntriesSince(now - hours_to_analyze)
          IN  /\ stats'.total_failed_calls = Cardinality(window)
              /\ SumOfCounts(stats'.by_cause, 1) = Cardinality(window)
              /\ SumOfCounts(stats'.by_hour, 1) = Cardinality(window)]_vars

C16_Witness ==
    /\ stats.done
    /\ ~purged.done
    /\ stats.total_failed_calls = 2
    /\ Cardinality(Entries) = 3
    /\ \E x \in Entries : x.date_time_origination[1] = stats.cutoff_time
    /\ \E x \in Entries : x.date_time_origination[1] < stats.cutoff_time

(* C17: the cause histogram has one bucket per distinct cause code, the      *)
(* count of a bucket is the number of entries of the window with that code,  *)
(* and the reason of a bucket is the cause-table text of the bucket's code.   *)
C17_CauseHistogram ==
    [][stats' # stats =>
          LET window == EntriesSince(now - hours_to_analyze)
              buckets == stats'.by_cause
          IN  /\ \A i, j \in DOMAIN buckets :
                     buckets[i].dest_cause_value = buckets[j].dest_cause_value => i = j
              /\ \A i \in DOMAIN buckets :
                     /\ buckets[i].count
                            = Cardinality({x \in window : x.dest_cause_value
                                                             = buckets[i].dest_cause_value})
                     /\ buckets[i].failure_reason
                            = CauseText(buckets[i].dest_cause_value)]_vars

(* The non-blank values of a column in the window, and a ranking of them. *)
KeysSince(cutoff, column) == {x[column] : x \in EntriesSince(cutoff)} \ {""}

IsTopRanking(ranking, column, cutoff) ==
    LET ranked == {ranking[i][column] : i \in DOMAIN ranking}
        CountOf(k) == Cardinality({x \in EntriesSince(cutoff) : x[column] = k})
    IN  /\ Len(ranking) <= 10
        /\ "" \notin ranked
        /\ ranked \subseteq KeysSince(cutoff, column)
        /\ \A i, j \in DOMAIN ranking : ranking[i][column] = ranking[j][column] => i = j
        /\ \A i \in DOMAIN ranking : ranking[i].count = CountOf(ranking[i][column])
        /\ \A i \in DOMAIN ranking :
               \A k \in KeysSince(cutoff, column) \ ranked : CountOf(k) <= ranking[i].count
        /\ Len(ranking) < 10 => ranked = KeysSince(cutoff, column)

(* C18: each of the three rankings has at most 10 entries, none with a blank *)
(* key even when the blank value is the most frequent in the window, and its *)
(* entries are the non-blank keys with the highest counts.                    *)
C18_TopRankings ==
    [][stats' # stats =>
          /\ IsTopRanking(stats'.top_callers, "calling_party_number",
                          now - hours_to_analyze)
          /\ IsTopRanking(stats'.top_destinations, "original_called_party_number",
                          now - hours_to_analyze)
          /\ IsTopRanking(stats'.top_devices, "orig_device_name",
                          now - hours_to_analyze)]_vars

C18_Witness ==
    /\ stats.done
    /\ ~purged.done
    /\ Len(stats.top_callers) = 10
    /\ Cardinality(KeysSince(stats.cutoff_time, "calling_party_number")) = 11
    /\ Cardinality({x \in Entries : x.calling_party_number = ""}) = 3
    /\ stats.top_callers[1].count = 2

(* The failed calls of the files in the local CDR directory that are not     *)
(* past the retention horizon are in the store.                               *)
LocalFailedCallsStored ==
    \A f \in local_cdr_dir :
        \A i \in DOMAIN FailedOf(f.content) :
            LET record == FailedOf(f.content)[i]
            IN  record.date_time_origination[1] >= now - 24 * retention_days
                => \E x \in Entries :
                       /\ x.global_call_id = record.global_call_id
                       /\ x.date_time_origination = record.date_time_origination

(* C19: after test CDR files were generated into the local CDR directory, a  *)
(* run with skip_fetch uses them: when the run computes its snapshot, the    *)
(* failed calls of those files are in the store, with no connection to the   *)
(* remote server.                                                             *)
C19_SkipFetchUsesLocalFiles ==
    [][\A r \in Runs :
           (ev[r] = "skip_fetch" /\ pc[r] = "report" /\ pc'[r] = "cleanup")
           => LocalFailedCallsStored]_vars

(* A line of at least 50 fields whose record type reads as 1 and whose       *)
(* origination field reads as a positive integer.                             *)
CallLegWithOrigination(row) ==
    /\ Len(row) >= 50
    /\ row[1] \in DOMAIN IntLiterals
    /\ IntLiterals[row[1]] = 1
    /\ row[5] \in DOMAIN IntLiterals
    /\ IntLiterals[row[5]] > 0

(* C20: the decoder emits a record for a line iff the line has at least 50   *)
(* fields, its record type parses to 1 and its origination field parses to a *)
(* positive integer; a zero, empty or unparsable origination gives no        *)
(* record, so every decoded record has an origination time.                   *)
C20_RecordIffCallLegWithOrigination ==
    dresult.done =>
        /\ \A i \in DOMAIN dfile :
               CallLegWithOrigination(Lines[dfile[i]])
               <=> \E k \in DOMAIN dresult.records :
                       dresult.records[k].global_call_id
                           = RowRecord(Lines[dfile[i]]).global_call_id
        /\ Len(dresult.records)
               = Cardinality({i \in DOMAIN dfile : CallLegWithOrigination(Lines[dfile[i]])})
        /\ \A k \in DOMAIN dresult.records :
               dresult.records[k].date_time_origination # None

(* C21: within one run the steps come in a fixed order: every file of the    *)
(* batch is ingested or skipped as processed before the snapshot is computed, *)
(* the snapshot is computed before the purge, and every run that started     *)
(* ends with the store closed, whether it returns or raises.                  *)
C21_RunOrder ==
    /\ [][\A r \in Runs :
              /\ (pc'[r] = "cleanup" /\ pc[r] # "cleanup")
                 => /\ pc[r] = "report"
                    /\ idx[r] > Len(batch[r])
                    /\ \A i \in DOMAIN batch[r] :
                           \E m \in Markers : m.filename = batch[r][i].name
              /\ (pc'[r] = "done" /\ pc[r] # "done") => pc[r] = "cleanup"
              /\ pc[r] \in {"done", "aborted"} => pc'[r] \in {pc[r], "idle"}]_vars
    /\ \A r \in Runs : (pc[r] # "idle") ~> (pc[r] \in {"done", "aborted"})

C21_Witness ==
    /\ pc[1] = "done"
    /\ ev[1] = "cleanup"
    /\ Cardinality(Markers) = 2
    /\ failed_calls # EmptyBag

(* The files a fetch can deliver. *)
AllDelivered ==
    {Delivered(FileNames[1], c) : c \in ContentsOf(FileNames[1])}
    \cup {Delivered(FileNames[2], c) : c \in ContentsOf(FileNames[2])}

(* The store holds entries of the file and no marker of it: a run was        *)
(* aborted in the middle of the file.                                         *)
Orphaned(f) ==
    /\ \E x \in Entries : x.file_hash = get_file_hash(f.content)
    /\ ~is_file_processed(processed_files, f.name, get_file_hash(f.content))

(* The marker of the file is written and every failed record of the file the *)
(* purge does not take has its key in the store exactly once.                 *)
Completed(f) ==
    /\ is_file_processed(processed_files, f.name, get_file_hash(f.content))
    /\ \A i \in DOMAIN FailedOf(f.content) :
           LET record == FailedOf(f.content)[i]
               held == {x \in Entries :
                            /\ x.global_call_id = record.global_call_id
                            /\ x.date_time_origination = record.date_time_origination}
           IN  record.date_time_origination[1] >= now - 24 * retention_days
               => /\ Cardinality(held) = 1
                  /\ \A x \in held : failed_calls[x] = 1

(* C22: a file a run was aborted on has no marker afterwards, and a later    *)
(* run that receives the same file completes it: when that run is over,      *)
(* every failed record of the file has its key in the store exactly once and *)
(* the marker of the file is written.                                         *)
C22_AbortedFileCompletedLater ==
    /\ [][\A r \in Runs :
              (pc[r] = "insert" /\ pc'[r] = "failed")
              => ~is_file_processed(processed_files', CurrentFile(r).name,
                                    get_file_hash(CurrentFile(r).content))]_vars
    /\ \A f \in AllDelivered :
           (pc[1] = "file" /\ CurrentFile(1) = f /\ Orphaned(f))
           ~> (pc[1] = "aborted" \/ (pc[1] = "done" /\ Completed(f)))

(* C23: a run that fails during the ingestion leaves what was committed      *)
(* before the failure as it was: the failing step and the close of the       *)
(* aborted run change no entry and no marker of the store.                    *)
C23_FailedRunKeepsCommitted ==
    [][\A r \in Runs :
           (\/ pc[r] # "failed" /\ pc'[r] = "failed"
            \/ pc[r] = "failed" /\ pc'[r] = "aborted")
           => /\ failed_calls' = failed_calls
              /\ processed_files' = processed_files]_vars

C23_Witness ==
    /\ pc[1] = "aborted"
    /\ pc[2] = "idle"
    /\ Cardinality(Markers) = 1
    /\ Cardinality(Entries) = 3

(* C24: the sequences are ordered: the cause histogram by count, never       *)
(* rising; the hourly histogram by hour, rising; the failed-call sequence by *)
(* origination, never rising.                                                 *)
C24_Orderings ==
    /\ stats.done =>
           /\ \A i, j \in DOMAIN stats.by_cause :
                  i < j => stats.by_cause[i].count >= stats.by_cause[j].count
           /\ \A i, j \in DOMAIN stats.by_hour :
                  i < j => stats.by_hour[i].hour < stats.by_hour[j].hour
    /\ calls.done =>
           \A i, j \in DOMAIN calls.rows :
               i < j => calls.rows[i].date_time_origination[1]
                            >= calls.rows[j].date_time_origination[1]

C24_Witness ==
    /\ stats.done
    /\ calls.done
    /\ Len(stats.by_cause) = 3
    /\ stats.by_cause[1].count > stats.by_cause[3].count
    /\ Len(stats.by_hour) = 3
    /\ Len(calls.rows) >= 4
    /\ calls.rows[1].date_time_origination[1] > calls.rows[Len(calls.rows)].date_time_origination[1]

(* C28: within one run the snapshot and the failed-call sequence describe    *)
(* the same rows: total_failed_calls is the length of the sequence, though   *)
(* each of the two is queried with its own reading of the clock.              *)
C28_SnapshotMatchesSequence ==
    (stats.done /\ calls.done) => stats.total_failed_calls = Len(calls.rows)

(* C25: a record classified as failed has a primary cause code outside the   *)
(* success codes, so its reason is never the text of a success code.         *)
C25_FailedHasFailureCause ==
    (verdict.done /\ verdict.is_failed) =>
        /\ verdict.primary_cause_code \notin SUCCESS_CODES
        /\ \A code \in SUCCESS_CODES \cap DOMAIN CAUSE_CODES :
               verdict.failure_reason # CAUSE_CODES[code]

(* C29: a line becomes a record classified as failed only if its duration    *)
(* field, ordinal 55, is present in the line and parses to zero; a line too  *)
(* short to carry the field never yields a failed record.                     *)
C29_FailedOnlyWithZeroDuration ==
    dresult.done =>
        \A i \in DOMAIN dfile, k \in DOMAIN dresult.records :
            (/\ dresult.records[k] = RowRecord(Lines[dfile[i]])
             /\ is_failed(dresult.records[k]))
            => /\ Len(Lines[dfile[i]]) > 55
               /\ Lines[dfile[i]][56] \in DOMAIN IntLiterals
               /\ IntLiterals[Lines[dfile[i]][56]] = 0

(* C27: the failed count of a file's processing is the number of rows that   *)
(* processing added to the store: the count rises by one exactly on a step   *)
(* that adds a row, and the marker and the run's total take that count, also *)
(* when the file repeats a key or shares records with an earlier file.       *)
C27_FailedCountIsRowsAdded ==
    [][\A r \in Runs :
           /\ (pc[r] = "insert" /\ pc'[r] = "insert" /\ pos'[r] = pos[r] + 1)
              => failed_count'[r] - failed_count[r]
                     = Cardinality(Entries') - Cardinality(Entries)
           /\ (pc[r] = "insert" /\ pc'[r] # "insert" /\ ev'[r] \in {"marked", "remarked"})
              => /\ MarkerRow(CurrentFile(r).name, file_hash[r],
                              Len(records[r]), failed_count[r]) \in Markers'
                 /\ total_failed'[r] = total_failed[r] + failed_count[r]]_vars

(* C26: at the moment the marker of a file is written, every record of the   *)
(* file's content that is classified as failed has its key (call identifier, *)
(* origination) in the store.                                                 *)
C26_MarkerImpliesFailedStored ==
    [][\A r \in Runs :
           (pc[r] = "insert" /\ pc'[r] # "insert" /\ ev'[r] \in {"marked", "remarked"})
           => \A k \in DOMAIN FailedOf(CurrentFile(r).content) :
                  \E x \in Entries' :
                      SameKey(x, FailedCallRow(FailedOf(CurrentFile(r).content)[k],
                                               file_hash[r]))]_vars

=============================================================================
